---- MODULE Spec2Model ----
(***************************************************************************)
(* Model of main.py: the two-stage orchestrator `ask`, the structured-     *)
(* response extractor `extract_json_from_response`, the two jsonschema     *)
(* schemas, the two process-wide chat sessions and the process-wide        *)
(* sqlite cursor.                                                          *)
(*                                                                         *)
(* Text is modelled as a sequence of lexical tokens [k |-> kind, v |->     *)
(* spelling]; formatting, splitting, stripping, JSON parsing and JSON      *)
(* serialization are computed on the tokens.                               *)
(***************************************************************************)
EXTENDS Integers, Sequences, FiniteSets, TLC

\* ------------------------------------------------------------- bounds ----
\* Number of exceptions the collaborators (model service, database) raise
\* or provoke while two invocations run concurrently.
MaxFaults == 1
\* Number of invocations a thread of the front end makes one after the
\* other.
MaxCalls == 2
\* The two invocations (threads of the front end) that may run ask.
Procs == {"A", "B"}

\* ------------------------------------------------------------- tokens ----
Tok(k, v) == [k |-> k, v |-> v]
Txt(s) == Tok("text", s)
Str(s) == Tok("str", s)
Num(s) == Tok("num", s)
Key(s) == Tok("key", s)
P(s) == Tok("punct", s)
WS == Tok("ws", " ")
\* the double quote that opens or closes a string literal written out in
\* parts; a literal with no fence marker inside is the single token Str
Q == Tok("quote", "QUOTE")
\* the three-backtick fence marker
FENCE == Tok("fence", "BACKTICKS")
TAG == Txt("json")

\* ----------------------------------------------------- str operations ----
\* First index at which pat occurs in text, 0 when it does not occur.
Find(text, pat) ==
    LET n == Len(pat)
        hits == {i \in 1..(Len(text) - n + 1) : SubSeq(text, i, i + n - 1) = pat}
    IN IF hits = {} THEN 0 ELSE CHOOSE i \in hits : \A j \in hits : i <= j

\* pat in text
Contains(text, pat) == Find(text, pat) # 0

\* text.split(pat)[0]
SplitFirst(text, pat) ==
    IF Contains(text, pat) THEN SubSeq(text, 1, Find(text, pat) - 1) ELSE text

\* text.split(pat)[1], defined when pat occurs in text
SplitSecond(text, pat) ==
    LET i == Find(text, pat)
    IN SplitFirst(SubSeq(text, i + Len(pat), Len(text)), pat)

RECURSIVE LStrip(_)
LStrip(text) ==
    IF text # <<>> /\ Head(text) = WS THEN LStrip(Tail(text)) ELSE text

RECURSIVE RStrip(_)
RStrip(text) ==
    IF text # <<>> /\ text[Len(text)] = WS
    THEN RStrip(SubSeq(text, 1, Len(text) - 1))
    ELSE text

\* text.strip()
Strip(text) == RStrip(LStrip(text))

\* --------------------------------------------------------------- json ----
NoFields == [x \in {} |-> WS]
JsonError == [type |-> "error", fields |-> NoFields, items |-> <<>>]
IsScalar(t) == t.k \in {"str", "num"}
ScalarType(t) == IF t.k = "str" THEN "string" ELSE "number"

\* members of an object text: key value (, key value)*
MembersOk(m) ==
    \/ m = <<>>
    \/ /\ Len(m) % 3 = 2
       /\ \A i \in 1..Len(m) :
            /\ (i % 3 = 1) => m[i].k = "key"
            /\ (i % 3 = 2) => IsScalar(m[i])
            /\ (i % 3 = 0) => m[i] = P(",")

\* the mapping of an object text; a repeated key keeps its last value
MemberFields(m) ==
    LET keys == {m[i].v : i \in {j \in 1..Len(m) : j % 3 = 1}}
        last(k) == CHOOSE i \in 1..Len(m) :
                      /\ i % 3 = 1 /\ m[i].v = k
                      /\ \A j \in 1..Len(m) : (j % 3 = 1 /\ m[j].v = k) => j <= i
    IN [k \in keys |-> m[last(k) + 1]]

\* elements of an array text: value (, value)*
ElementsOk(m) ==
    \/ m = <<>>
    \/ /\ Len(m) % 2 = 1
       /\ \A i \in 1..Len(m) :
            /\ (i % 2 = 1) => IsScalar(m[i])
            /\ (i % 2 = 0) => m[i] = P(",")

ElementItems(m) == [i \in 1..((Len(m) + 1) \div 2) |-> m[2 * i - 1]]

RECURSIVE Spelling(_)
\* the characters of a piece of text
Spelling(text) == IF text = <<>> THEN "" ELSE Head(text).v \o Spelling(Tail(text))

RECURSIVE Lex(_)
\* the scanner of json.loads: a string literal runs from a quote to the
\* next quote, whatever stands between them; an unterminated literal is
\* left as it is, which no value matches
Lex(text) ==
    IF text = <<>> THEN <<>>
    ELSE IF Head(text) = Q /\ Contains(Tail(text), <<Q>>)
      THEN LET j == Find(Tail(text), <<Q>>)
           IN <<Tok("str", Spelling(SubSeq(Tail(text), 1, j - 1)))>>
                \o Lex(SubSeq(Tail(text), j + 1, Len(text) - 1))
    ELSE <<Head(text)>> \o Lex(Tail(text))

\* json.loads(text): whitespace between tokens is insignificant
Loads(text) ==
    LET s == SelectSeq(Lex(text), LAMBDA t : t # WS)
        n == Len(s)
        inner == SubSeq(s, 2, n - 1)
    IN IF n = 1 /\ IsScalar(s[1])
         THEN [type |-> ScalarType(s[1]), fields |-> NoFields, items |-> s]
       ELSE IF n >= 2 /\ s[1] = P("{") /\ s[n] = P("}") /\ MembersOk(inner)
         THEN [type |-> "object", fields |-> MemberFields(inner), items |-> <<>>]
       ELSE IF n >= 2 /\ s[1] = P("[") /\ s[n] = P("]") /\ ElementsOk(inner)
         THEN [type |-> "array", fields |-> NoFields, items |-> ElementItems(inner)]
       ELSE JsonError

RECURSIVE Join(_, _)
\* sep.join(parts), parts a sequence of texts
Join(parts, sep) ==
    IF parts = <<>> THEN <<>>
    ELSE IF Len(parts) = 1 THEN parts[1]
    ELSE parts[1] \o sep \o Join(Tail(parts), sep)

\* json.dumps of one row (a tuple of integers is written as an array)
DumpsRow(row) ==
    <<P("[")>> \o Join([i \in 1..Len(row) |-> <<Num(ToString(row[i]))>>], <<P(","), WS>>)
               \o <<P("]")>>

\* a serialization of the first row alone
DumpsFirstRow(data) ==
    <<P("[")>> \o (IF data = <<>> THEN <<>> ELSE DumpsRow(data[1])) \o <<P("]")>>

\* json.dumps(data), data a list of rows
Dumps(data) ==
    <<P("[")>> \o Join([i \in 1..Len(data) |-> DumpsRow(data[i])], <<P(","), WS>>)
               \o <<P("]")>>

\* ------------------------------------------------------------ schemas ----
sql_schema ==
    [type |-> "object",
     properties |-> [sqlQuery |-> "string", description |-> "string"],
     required |-> {"sqlQuery"}]

response_schema ==
    [type |-> "object",
     properties |-> [message |-> "string"],
     required |-> {"message"}]

\* a validation that checks the required fields and not their types
ValidRequiredOnly(instance, schema) ==
    /\ instance.type = schema.type
    /\ \A k \in schema.required : k \in DOMAIN instance.fields

\* a validation under a schema that lost its list of required fields
ValidTypesOnly(instance, schema) ==
    /\ instance.type = schema.type
    /\ \A k \in DOMAIN schema.properties :
          k \in DOMAIN instance.fields =>
              ScalarType(instance.fields[k]) = schema.properties[k]

\* jsonschema.validate(instance, schema) does not raise
Valid(instance, schema) ==
    /\ instance.type = schema.type
    /\ \A k \in schema.required : k \in DOMAIN instance.fields
    /\ \A k \in DOMAIN schema.properties :
          k \in DOMAIN instance.fields =>
              ScalarType(instance.fields[k]) = schema.properties[k]

\* ---------------------------------------------------------- extractor ----
\* the two tests of the fence in the other order: any fence is cut at, a
\* JSON-tagged one as well
extract_at_any_fence(text) ==
    LET direct == Loads(text)
        json_text ==
            IF Contains(text, <<FENCE>>)
              THEN SplitFirst(SplitSecond(text, <<FENCE>>), <<FENCE>>)
            ELSE IF Contains(text, <<FENCE, TAG>>)
              THEN SplitFirst(SplitSecond(text, <<FENCE, TAG>>), <<FENCE>>)
            ELSE text
    IN IF direct.type # "error" THEN direct ELSE Loads(Strip(json_text))

extract_json_from_response(text) ==
    LET direct == Loads(text)
        json_text ==
            IF Contains(text, <<FENCE, TAG>>)
              THEN SplitFirst(SplitSecond(text, <<FENCE, TAG>>), <<FENCE>>)
            ELSE IF Contains(text, <<FENCE>>)
              THEN SplitFirst(SplitSecond(text, <<FENCE>>), <<FENCE>>)
            ELSE text
    IN IF direct.type # "error" THEN direct ELSE Loads(Strip(json_text))

\* -------------------------------------------------------- environment ----
\* Questions the front end passes to ask.
Questions == {"how many employees", "who is the oldest"}

\* Texts the SQL session may reply with.
SqlReplies ==
    { <<P("{"), Key("sqlQuery"), Str("SELECT_COUNT"), P(","),
        Key("description"), Str("d"), P("}")>>,
      <<Txt("Here is the query"), FENCE, TAG, WS,
        P("{"), Key("sqlQuery"), Str("SELECT_NAMES"), P("}"), WS, FENCE>>,
      <<P("{"), Key("sqlQuery"), Str("SELEC_TYPO"), P("}")>>,
      <<P("{"), Key("description"), Str("d"), P("}")>>,
      <<Txt("I cannot answer that")>> }

\* Texts the answer session may reply with.
AnsReplies ==
    { <<FENCE, WS, P("{"), Key("message"), Str("There are 5"), P("}"), WS, FENCE>>,
      <<P("{"), Key("message"), Str("See the list"), P("}")>>,
      <<P("{"), Key("message"), Num("5"), P("}")>>,
      <<Txt("Sorry")>> }

\* JSON values a model may write: a string (the pieces of text between its
\* quotes) or a number
StringOf(parts) == [k |-> "str", parts |-> parts]
NumberOf(digits) == [k |-> "num", parts |-> <<Txt(digits)>>]
Member(key, value) == [key |-> key, value |-> value]

\* the value json.loads gives for a written value
ValueOf(value) == Tok(value.k, Spelling(value.parts))

\* the JSON text of a value
Literal(value) ==
    IF value.k = "num" THEN <<Num(Spelling(value.parts))>>
    ELSE IF Contains(value.parts, <<FENCE>>) THEN <<Q>> \o value.parts \o <<Q>>
    ELSE <<Str(Spelling(value.parts))>>

\* the mapping a JSON object (a sequence of members with different keys) is
ObjValue(o) ==
    [k \in {o[i].key : i \in 1..Len(o)} |->
        ValueOf((CHOOSE m \in {o[i] : i \in 1..Len(o)} : m.key = k).value)]

\* the JSON text of an object
ObjText(o) ==
    <<P("{")>> \o Join([i \in 1..Len(o) |-> <<Key(o[i].key)>> \o Literal(o[i].value)],
                       <<P(","), WS>>)
              \o <<P("}")>>

\* a string whose text holds a fenced snippet
Snippet == StringOf(<<Txt("Run "), FENCE, Txt("SELECT 1"), FENCE>>)

\* JSON objects a model may write
JsonObjects ==
    { <<>>,
      <<Member("sqlQuery", StringOf(<<Txt("SELECT 1")>>))>>,
      <<Member("sqlQuery", StringOf(<<Txt("SELECT 1")>>)),
        Member("description", StringOf(<<Txt("d")>>))>>,
      <<Member("sqlQuery", StringOf(<<Txt("SELECT 1")>>)),
        Member("description", NumberOf("7"))>>,
      <<Member("sqlQuery", NumberOf("5"))>>,
      <<Member("description", StringOf(<<Txt("d")>>))>>,
      <<Member("message", StringOf(<<Txt("hi")>>))>>,
      <<Member("message", NumberOf("5"))>>,
      <<Member("message", Snippet)>>,
      <<Member("sqlQuery", Snippet)>> }

\* JSON texts that are not objects, and a text that is not JSON
Prose == <<Txt("Here is the result:")>>
NonObjects ==
    { <<P("["), Num("1"), P(","), WS, Num("2"), P("]")>>,
      <<Num("5")>>,
      <<Str("hi")>> }

\* a fenced block of a reply
Block(tagged, content) == [tagged |-> tagged, content |-> content]
BlockText(b) ==
    <<FENCE>> \o (IF b.tagged THEN <<TAG>> ELSE <<>>) \o <<WS>> \o b.content
              \o <<WS, FENCE>>

\* a reply: leading text, then fenced blocks one after the other
Reply(lead, blocks) == [lead |-> lead, blocks |-> blocks]
Render(r) ==
    Join(<<r.lead>> \o [i \in 1..Len(r.blocks) |-> BlockText(r.blocks[i])], <<WS>>)

\* what the blocks of a reply of several blocks hold
BlockContents ==
    { ObjText(<<Member("sqlQuery", StringOf(<<Txt("SELECT 1")>>))>>),
      ObjText(<<Member("message", StringOf(<<Txt("hi")>>))>>),
      ObjText(<<Member("message", Snippet)>>),
      <<Txt("SELECT 1")>> }
Blocks == {Block(t, c) : t \in BOOLEAN, c \in BlockContents}

\* the replies the extractor is applied to
Replies ==
    {Reply(ObjText(o), <<>>) : o \in JsonObjects}
    \cup {Reply(Prose, <<Block(t, ObjText(o))>>) : t \in BOOLEAN, o \in JsonObjects}
    \cup {Reply(c, <<>>) : c \in NonObjects \cup {Prose}}
    \cup {Reply(Prose, <<Block(t, c)>>) : t \in BOOLEAN, c \in NonObjects}
    \cup {Reply(l, <<a, b>>) : l \in {<<>>, Prose}, a \in Blocks, b \in Blocks}
Texts == {Render(r) : r \in Replies}

\* The rows the database holds for the statements it accepts.
Statements == {"SELECT_COUNT", "SELECT_NAMES"}
QueryRows(stmt) ==
    IF stmt = "SELECT_COUNT" THEN << <<5>> >> ELSE << <<1, 2>>, <<3, 4>> >>

\* cur.execute(query) does not raise
QueryOk(query) == query.k = "str" /\ query.v \in Statements

\* --------------------------------------------------------------- ask ----
\* the loop with one attempt more
TriesPlusOne == 4 + 1

\* tries = 4
Tries == 4

\* for attempt in range(tries)
InRange(attempt) == attempt < Tries

\* the handler comparing with tries, not with tries - 1
AttemptsRemainThrough(attempt) == attempt < Tries

\* the handler giving up one attempt early
AttemptsRemainEarly(attempt) == attempt < Tries - 2

\* if attempt < tries - 1
AttemptsRemain(attempt) == attempt < Tries - 1

\* an exponential backoff
BackoffDoubling(attempt) == 2 ^ (attempt + 1)

\* the backoff counted from the loop index, not from the attempt number
BackoffFromZero(attempt) == 2 * attempt

\* time.sleep(2 * (attempt + 1))
Backoff(attempt) == 2 * (attempt + 1)

\* the message of sql_chat.send_message
SqlPrompt(q) ==
    <<Txt("Generate a SQL query for this question: "), Txt(q),
      Txt("\nRespond only with a JSON object in the specified format.")>>

\* the message of response_chat.send_message
AnswerPrompt(q, text) ==
    <<Txt("The question of the user was: "), Txt(q),
      Txt(".\n\n ----- \n\n The result of the query is: ")>> \o text \o
    <<Txt("\n\n ---- \n\n Now give user a pretty message in the specified JSON format.")>>

\* a cursor of its own for every invocation
CursorPerInvocation(p) == p

\* the single cursor every invocation uses
CursorOf(p) == "cur"
Cursors == {"cur"} \cup Procs

\* the value of the success return
SuccessResult(json) == [kind |-> "str", text |-> <<Txt(json.fields["message"].v)>>]

\* the value of the exhaustion return: a pair (string, None)
FailureResult(e) ==
    [kind |-> "tuple", text |-> <<Txt("Sorry, I encountered an error: "), Txt(e)>>]

\* falling out of the for loop returns None
NoResult == [kind |-> "none", text |-> <<>>]

\* a retry that keeps the SQL directive when a later stage failed
RestartKeepingSql(stage) ==
    IF stage \in {"execute", "gen_answer", "parse_answer"} THEN "execute" ELSE "gen_sql"

\* the first statement of the try body, where a retry starts after a
\* failure at the given stage
RestartAt(stage) == "gen_sql"

\* a failure of the query passed over
CatchAfterQuery(stage) == IF stage = "execute" THEN "fetch" ELSE "except"

\* a failure of the extraction or validation of the SQL reply passed over
CatchAfterSqlStage(stage) == IF stage = "parse_sql" THEN "execute" ELSE "except"

\* the try statement encloses every stage: an exception raised at any of
\* them reaches the handler
Catch(stage) == "except"

\* a session that keeps the latest turn alone
send_keeping_last(history, req, reply) == <<[req |-> req, resp |-> reply]>>

\* a stateless send, which records no turn
send_stateless(history, req, reply) == history

\* a chat session records the turn of a send that returned
send_message(history, req, reply) == Append(history, [req |-> req, resp |-> reply])

Unbound == Tok("unbound", "")
Event(e, a, n, t) == [ev |-> e, att |-> a, n |-> n, txt |-> t]

VARIABLES
    pc,             \* position of each invocation in ask
    question,       \* parameter of ask
    attempt,        \* loop variable
    sql_text,       \* sql_result.text
    sql_json,
    query,
    data,
    dataText,
    response_text,  \* response_result.text
    response_json,
    exc,            \* the exception caught by the handler (its description)
    result,         \* the value ask returned
    sql_hist,       \* sql_chat.history
    resp_hist,      \* response_chat.history
    cur,            \* statement and pending rows of each cursor
    last_exec,      \* most recent execute call of the process, whoever made it
    trace,          \* calls and sleeps of the current invocation, in order
    calls_left,     \* invocations each thread of the front end still makes
    may_ask,        \* questions each thread of the front end may pass
    faults_left,    \* exceptions the collaborators may still raise or provoke
    raw_text,       \* a reply text put through lines 199-201 or 221-229
    for_stage,      \* the stage whose lines it is put through
    at,             \* how far it has come
    parsed,         \* what extract_json_from_response returned
    accepted,       \* what jsonschema.validate found
    read,           \* the field read from the validated object
    totals          \* calls the invocations that returned made, by kind

locals == <<question, attempt, sql_text, sql_json, query, data, dataText,
            response_text, response_json, exc, result>>
shared == <<sql_hist, resp_hist, cur, last_exec>>
frontend == <<calls_left, may_ask>>
pipeline == <<raw_text, for_stage, at, parsed, accepted, read>>
vars == <<pc, locals, shared, trace, frontend, faults_left, pipeline, totals>>

NoStatement == [statement |-> Unbound, rows |-> <<>>]

\* the state after the module is loaded
Constructed ==
    /\ pc = [p \in Procs |-> "idle"]
    /\ question = [p \in Procs |-> ""]
    /\ attempt = [p \in Procs |-> 0]
    /\ sql_text = [p \in Procs |-> <<>>]
    /\ sql_json = [p \in Procs |-> JsonError]
    /\ query = [p \in Procs |-> Unbound]
    /\ data = [p \in Procs |-> <<>>]
    /\ dataText = [p \in Procs |-> <<>>]
    /\ response_text = [p \in Procs |-> <<>>]
    /\ response_json = [p \in Procs |-> JsonError]
    /\ exc = [p \in Procs |-> ""]
    /\ result = [p \in Procs |-> NoResult]
    /\ sql_hist = <<>>
    /\ resp_hist = <<>>
    /\ cur = [c \in Cursors |-> NoStatement]
    /\ last_exec = [by |-> "", on |-> "cur", statement |-> Unbound, rows |-> <<>>]
    /\ trace = [p \in Procs |-> <<>>]
    /\ totals = [sql_send |-> 0, execute |-> 0, answer_send |-> 0]

\* no reply text is being processed on its own
NoReply ==
    /\ raw_text = <<>>
    /\ for_stage = "sql"
    /\ at = "off"
    /\ parsed = JsonError
    /\ accepted = "unknown"
    /\ read = Unbound

\* one thread of the front end makes one invocation; each of its attempts
\* may fail
Init ==
    /\ Constructed
    /\ NoReply
    /\ calls_left = [p \in Procs |-> IF p = "A" THEN 1 ELSE 0]
    /\ may_ask = [p \in Procs |-> Questions]
    /\ faults_left = Tries

\* two threads of the front end make one invocation each, for two users
\* who ask different questions
InitConcurrent ==
    /\ Constructed
    /\ NoReply
    /\ calls_left = [p \in Procs |-> 1]
    /\ may_ask = [p \in Procs |-> IF p = "A" THEN {"how many employees"}
                                             ELSE {"who is the oldest"}]
    /\ faults_left = MaxFaults

\* one thread of the front end makes one invocation after the other
InitSequence ==
    /\ Constructed
    /\ NoReply
    /\ calls_left = [p \in Procs |-> IF p = "A" THEN MaxCalls ELSE 0]
    /\ may_ask = [p \in Procs |-> Questions]
    /\ faults_left = MaxFaults

Log(p, events) == trace' = [trace EXCEPT ![p] = @ \o events]

\* the record of an exception of description e raised at the given stage
Raised(p, stage, e) == Event("raise", attempt[p], 0, <<Txt(stage), Txt(e)>>)

\* the exception is bound to e where the try statement catches it
Raise(p, stage, e) ==
    /\ exc' = [exc EXCEPT ![p] = e]
    /\ pc' = [pc EXCEPT ![p] = Catch(stage)]

\* the collaborators raise or provoke an exception while faults are left
Budget(isFault) ==
    /\ isFault => faults_left > 0
    /\ faults_left' = IF isFault THEN faults_left - 1 ELSE faults_left

Inactive(p) == pc[p] \in {"idle", "done"}

\* the calls in a trace: the sends to each session and the queries that ran
Made(events) ==
    [sql_send |-> Len(SelectSeq(events, LAMBDA x : x.ev = "sql_send")),
     execute |-> Len(SelectSeq(events, LAMBDA x : x.ev = "execute" /\ x.n = 1)),
     answer_send |-> Len(SelectSeq(events, LAMBDA x : x.ev = "answer_send"))]

\* line 178: a thread of the front end calls ask(question, history)
AskCall(p) ==
    /\ Inactive(p)
    /\ calls_left[p] > 0
    /\ calls_left' = [calls_left EXCEPT ![p] = @ - 1]
    /\ \E q \in may_ask[p] : question' = [question EXCEPT ![p] = q]
    /\ pc' = [pc EXCEPT ![p] = "gen_sql"]
    /\ attempt' = [attempt EXCEPT ![p] = 0]
    /\ sql_text' = [sql_text EXCEPT ![p] = <<>>]
    /\ sql_json' = [sql_json EXCEPT ![p] = JsonError]
    /\ query' = [query EXCEPT ![p] = Unbound]
    /\ data' = [data EXCEPT ![p] = <<>>]
    /\ dataText' = [dataText EXCEPT ![p] = <<>>]
    /\ response_text' = [response_text EXCEPT ![p] = <<>>]
    /\ response_json' = [response_json EXCEPT ![p] = JsonError]
    /\ exc' = [exc EXCEPT ![p] = ""]
    /\ result' = [result EXCEPT ![p] = NoResult]
    /\ trace' = [trace EXCEPT ![p] = <<>>]
    /\ totals' = [k \in DOMAIN totals |-> totals[k] + Made(trace[p])[k]]
    /\ UNCHANGED <<pipeline, shared, may_ask, faults_left>>

\* the exception lines 199-201 raise on the reply text, "" when none
SqlStageError(text) ==
    LET v == extract_json_from_response(text)
    IN IF v.type = "error" THEN "JSONDecodeError"
       ELSE IF ~Valid(v, sql_schema) THEN "ValidationError"
       ELSE IF v.type # "object" THEN "TypeError"
       ELSE IF "sqlQuery" \notin DOMAIN v.fields THEN "KeyError"
       ELSE ""

\* the exception lines 221-229 raise on the reply text, "" when none
AnswerStageError(text) ==
    LET v == extract_json_from_response(text)
    IN IF v.type = "error" THEN "JSONDecodeError"
       ELSE IF ~Valid(v, response_schema) THEN "ValidationError"
       ELSE IF v.type # "object" THEN "TypeError"
       ELSE IF "message" \notin DOMAIN v.fields THEN "KeyError"
       ELSE ""

\* line 194: sql_chat.send_message raises; the session records no turn
SqlSendFails(p) ==
    /\ pc[p] = "gen_sql"
    /\ Budget(TRUE)
    /\ Raise(p, "gen_sql", "ServiceError")
    /\ Log(p, <<Event("sql_send", attempt[p], 0, SqlPrompt(question[p])),
                Raised(p, "gen_sql", "ServiceError")>>)
    /\ UNCHANGED <<pipeline, totals, question, attempt, sql_text, sql_json, query, data, dataText,
                   response_text, response_json, result, shared, frontend>>

\* lines 194-201: sql_chat.send_message returns a reply, which is extracted,
\* validated and read
GenerateSql(p) ==
    /\ pc[p] = "gen_sql"
    /\ \E reply \in SqlReplies :
        LET req == SqlPrompt(question[p])
            v == extract_json_from_response(reply)
            e == SqlStageError(reply)
            sent == <<Event("sql_send", attempt[p], 1, req),
                      Event("sql_reply", attempt[p], 1, reply)>>
        IN /\ Budget(e # "" \/ ~QueryOk(v.fields["sqlQuery"]))
           /\ sql_hist' = send_message(sql_hist, req, reply)
           /\ sql_text' = [sql_text EXCEPT ![p] = reply]
           /\ sql_json' = IF v.type = "error" THEN sql_json
                          ELSE [sql_json EXCEPT ![p] = v]
           /\ IF e # ""
                THEN /\ Raise(p, "parse_sql", e)
                     /\ Log(p, sent \o <<Raised(p, "parse_sql", e)>>)
                     /\ UNCHANGED query
                ELSE /\ query' = [query EXCEPT ![p] = v.fields["sqlQuery"]]
                     /\ pc' = [pc EXCEPT ![p] = "execute"]
                     /\ Log(p, sent)
                     /\ UNCHANGED exc
    /\ UNCHANGED <<pipeline, totals, question, attempt, data, dataText, response_text,
                   response_json, result, resp_hist, cur, last_exec, frontend>>

\* line 208: cur.execute(query)
Execute(p) ==
    /\ pc[p] = "execute"
    /\ LET c == CursorOf(p)
           called(ok) == Event("execute", attempt[p], ok, <<query[p]>>)
       IN IF QueryOk(query[p])
            THEN /\ cur' = [cur EXCEPT ![c] = [statement |-> query[p],
                                               rows |-> QueryRows(query[p].v)]]
                 /\ last_exec' = [by |-> p, on |-> c, statement |-> query[p],
                                  rows |-> QueryRows(query[p].v)]
                 /\ pc' = [pc EXCEPT ![p] = "fetch"]
                 /\ Log(p, <<called(1)>>)
                 /\ UNCHANGED exc
            ELSE /\ cur' = [cur EXCEPT ![c] = NoStatement]
                 /\ last_exec' = [by |-> p, on |-> c, statement |-> query[p],
                                  rows |-> <<>>]
                 /\ Raise(p, "execute", "OperationalError")
                 /\ Log(p, <<called(0), Raised(p, "execute", "OperationalError")>>)
    /\ UNCHANGED <<pipeline, totals, question, attempt, sql_text, sql_json, query, data, dataText,
                   response_text, response_json, result, sql_hist, resp_hist,
                   frontend, faults_left>>

\* lines 209-210: data = cur.fetchall(); dataText = json.dumps(data)
Fetch(p) ==
    /\ pc[p] = "fetch"
    /\ LET c == CursorOf(p)
       IN /\ data' = [data EXCEPT ![p] = cur[c].rows]
          /\ dataText' = [dataText EXCEPT ![p] = Dumps(cur[c].rows)]
          /\ cur' = [cur EXCEPT ![c].rows = <<>>]
          /\ last_exec' = IF last_exec.on = c
                            THEN [last_exec EXCEPT !.rows = <<>>]
                            ELSE last_exec
          /\ Log(p, <<Event("fetch", attempt[p], Len(last_exec.rows),
                            <<last_exec.statement>>)>>)
    /\ pc' = [pc EXCEPT ![p] = "gen_answer"]
    /\ UNCHANGED <<pipeline, totals, question, attempt, sql_text, sql_json, query, response_text,
                   response_json, exc, result, sql_hist, resp_hist, frontend, faults_left>>

\* line 216: response_chat.send_message raises; the session records no turn
AnswerSendFails(p) ==
    /\ pc[p] = "gen_answer"
    /\ Budget(TRUE)
    /\ Raise(p, "gen_answer", "ServiceError")
    /\ Log(p, <<Event("answer_send", attempt[p], 0,
                      AnswerPrompt(question[p], dataText[p])),
                Raised(p, "gen_answer", "ServiceError")>>)
    /\ UNCHANGED <<pipeline, totals, question, attempt, sql_text, sql_json, query, data, dataText,
                   response_text, response_json, result, shared, frontend>>

\* lines 216-229: response_chat.send_message returns a reply, which is
\* extracted and validated; its message is returned
GenerateAnswer(p) ==
    /\ pc[p] = "gen_answer"
    /\ \E reply \in AnsReplies :
        LET req == AnswerPrompt(question[p], dataText[p])
            v == extract_json_from_response(reply)
            e == AnswerStageError(reply)
            sent == <<Event("answer_send", attempt[p], 1, req),
                      Event("answer_reply", attempt[p], 1, reply)>>
        IN /\ Budget(e # "")
           /\ resp_hist' = send_message(resp_hist, req, reply)
           /\ response_text' = [response_text EXCEPT ![p] = reply]
           /\ response_json' = IF v.type = "error" THEN response_json
                               ELSE [response_json EXCEPT ![p] = v]
           /\ IF e # ""
                THEN /\ Raise(p, "parse_answer", e)
                     /\ Log(p, sent \o <<Raised(p, "parse_answer", e)>>)
                     /\ UNCHANGED result
                ELSE /\ result' = [result EXCEPT ![p] = SuccessResult(v)]
                     /\ pc' = [pc EXCEPT ![p] = "done"]
                     /\ Log(p, sent)
                     /\ UNCHANGED exc
    /\ UNCHANGED <<pipeline, totals, question, attempt, sql_text, sql_json, query, data, dataText,
                   sql_hist, cur, last_exec, frontend>>

\* the stage at which the exception being handled was raised
FailedStage(p) ==
    LET raises == SelectSeq(trace[p], LAMBDA x : x.ev = "raise")
    IN raises[Len(raises)].txt[1].v

\* lines 231-239: the handler sleeps and the loop goes on, or ask returns
Handler(p) ==
    /\ pc[p] = "except"
    /\ IF AttemptsRemain(attempt[p])
         THEN /\ Log(p, <<Event("sleep", attempt[p], Backoff(attempt[p]), <<>>)>>)
              /\ attempt' = [attempt EXCEPT ![p] = @ + 1]
              /\ IF InRange(attempt[p] + 1)
                   THEN /\ pc' = [pc EXCEPT ![p] = RestartAt(FailedStage(p))]
                        /\ UNCHANGED result
                   ELSE /\ pc' = [pc EXCEPT ![p] = "done"]
                        /\ result' = [result EXCEPT ![p] = NoResult]
         ELSE /\ result' = [result EXCEPT ![p] = FailureResult(exc[p])]
              /\ pc' = [pc EXCEPT ![p] = "done"]
              /\ UNCHANGED <<attempt, trace>>
    /\ UNCHANGED <<pipeline, totals, question, sql_text, sql_json, query, data, dataText,
                   response_text, response_json, exc, shared, frontend, faults_left>>

Step(p) ==
    \/ SqlSendFails(p)
    \/ GenerateSql(p)
    \/ Execute(p)
    \/ Fetch(p)
    \/ AnswerSendFails(p)
    \/ GenerateAnswer(p)
    \/ Handler(p)

Next == \E p \in Procs : AskCall(p) \/ Step(p)

\* one invocation
Spec == Init /\ [][Next]_vars

\* one invocation whose thread keeps running: a send, a query or a sleep
\* that was started returns or raises
SpecFair == Init /\ [][Next]_vars /\ \A p \in Procs : WF_vars(Step(p))

\* one invocation after the other on one thread of the front end
SpecSequence == InitSequence /\ [][Next]_vars

\* two invocations from two threads of the front end
SpecConcurrent == InitConcurrent /\ [][Next]_vars

\* ------------------------------------------------- one reply, alone ----
\* the schema and the field of each stage
SchemaOf(stage) == IF stage = "sql" THEN sql_schema ELSE response_schema
FieldOf(stage) == IF stage = "sql" THEN "sqlQuery" ELSE "message"

\* a reply text of either stage, before line 199 or 221 runs on it
InitReply ==
    /\ Constructed
    /\ calls_left = [p \in Procs |-> 0]
    /\ may_ask = [p \in Procs |-> Questions]
    /\ faults_left = 0
    /\ raw_text \in Texts
    /\ for_stage \in {"sql", "answer"}
    /\ at = "extract"
    /\ parsed = JsonError
    /\ accepted = "unknown"
    /\ read = Unbound

\* lines 199, 221: extract_json_from_response(text) returns or raises
ExtractReply ==
    /\ at = "extract"
    /\ parsed' = extract_json_from_response(raw_text)
    /\ at' = IF parsed'.type = "error" THEN "raised" ELSE "validate"
    /\ UNCHANGED totals
    /\ UNCHANGED <<raw_text, for_stage, accepted, read>>
    /\ UNCHANGED <<pc, locals, shared, trace, frontend, faults_left>>

\* lines 200, 222: validate(instance, schema) returns or raises
ValidateReply ==
    /\ at = "validate"
    /\ accepted' = IF Valid(parsed, SchemaOf(for_stage)) THEN "yes" ELSE "no"
    /\ at' = IF accepted' = "yes" THEN "read" ELSE "raised"
    /\ UNCHANGED totals
    /\ UNCHANGED <<raw_text, for_stage, parsed, read>>
    /\ UNCHANGED <<pc, locals, shared, trace, frontend, faults_left>>

\* lines 201, 229: the subscript returns the field or raises
ReadField ==
    /\ at = "read"
    /\ IF parsed.type = "object" /\ FieldOf(for_stage) \in DOMAIN parsed.fields
         THEN /\ read' = parsed.fields[FieldOf(for_stage)]
              /\ at' = "done"
         ELSE /\ at' = "raised"
              /\ UNCHANGED read
    /\ UNCHANGED totals
    /\ UNCHANGED <<raw_text, for_stage, parsed, accepted>>
    /\ UNCHANGED <<pc, locals, shared, trace, frontend, faults_left>>

NextReply == ExtractReply \/ ValidateReply \/ ReadField

\* a reply text put through the extraction, the validation and the read
SpecReply == InitReply /\ [][NextReply]_vars

\* ------------------------------------------------------------- claims ----
\* the events of one kind in the trace of p, in order
Events(p, e) == SelectSeq(trace[p], LAMBDA x : x.ev = e)
Count(p, e) == Len(Events(p, e))
\* the kinds of the events of one attempt of p, in order
AttemptEvents(p, a) == SelectSeq(trace[p], LAMBDA x : x.att = a)
Kinds(events) == [i \in 1..Len(events) |-> events[i].ev]
Returned(p) == pc[p] = "done"
Answered(p) == Returned(p) /\ result[p].kind = "str"
SqlStages == {"gen_sql", "parse_sql"}
\* the description of the exception of a raise event
Description(r) == r.txt[2].v
\* the sleeps of p, in order
Sleeps(p) == [i \in 1..Count(p, "sleep") |-> Events(p, "sleep")[i].n]

\* C1: one invocation of ask makes at most 4 attempts: it sends at most 4
\* messages to the SQL session, executes at most 4 queries and sends at most
\* 4 messages to the answer session, whatever the collaborators do.
C1_AtMostFourAttempts ==
    \A p \in Procs :
        /\ attempt[p] < 4
        /\ Count(p, "sql_send") <= 4
        /\ Count(p, "execute") <= 4
        /\ Count(p, "answer_send") <= 4

\* an invocation whose four attempts each sent to both sessions and executed
C1_Witness ==
    /\ Returned("A")
    /\ Count("A", "sql_send") = 4
    /\ Count("A", "execute") = 4
    /\ Count("A", "answer_send") = 4

\* C2: when all 4 attempts fail, ask returns a plain string, as a normal
\* answer is, of the form 'Sorry, I encountered an error: <description>'
\* with the description of the exception of the 4th attempt.
C2_ExhaustionReturnsString ==
    \A p \in Procs :
        (Returned(p) /\ Count(p, "raise") = 4) =>
            /\ result[p].kind = "str"
            /\ result[p].text = <<Txt("Sorry, I encountered an error: "),
                                  Txt(Description(Events(p, "raise")[4]))>>

\* C3: when attempts 1..k-1 fail and attempt k succeeds, ask has slept
\* exactly k-1 times, for 2, 4, ..., 2(k-1) seconds in that order, each
\* sleep after the failure of one attempt and before the send of the next,
\* and it returns the message of the answer of attempt k.
C3_BackoffBeforeSuccess ==
    \A p \in Procs :
        Answered(p) =>
            LET k == Count(p, "raise") + 1
                t == trace[p]
            IN /\ k \in 1..4
               /\ Sleeps(p) = [i \in 1..(k - 1) |-> 2 * i]
               /\ \A j \in 1..Len(t) :
                     t[j].ev = "sleep" =>
                        /\ t[j - 1].ev = "raise" /\ t[j - 1].att = t[j].att
                        /\ t[j + 1].ev = "sql_send" /\ t[j + 1].att = t[j].att + 1
               /\ t[Len(t)].ev = "answer_reply"
               /\ t[Len(t)].att = k - 1
               /\ result[p].text =
                     <<Txt(extract_json_from_response(t[Len(t)].txt).fields["message"].v)>>

\* validation of the SQL reply failed in attempts 1-3, attempt 4 succeeded
C3_Witness ==
    /\ Answered("A")
    /\ Sleeps("A") = <<2, 4, 6>>
    /\ \A i \in 1..3 :
          /\ Events("A", "raise")[i].txt = <<Txt("parse_sql"), Txt("ValidationError")>>

\* C4: when the SQL-generation stage (send, extraction or validation) fails
\* in each of the 4 attempts, no query is executed, no message is sent to
\* the answer session, and ask ends with the failure result.
C4_NoExecutionWithoutSql ==
    \A p \in Procs :
        (Returned(p) /\ \A a \in 0..3 :
                           \E i \in 1..Len(trace[p]) :
                               /\ trace[p][i].ev = "raise"
                               /\ trace[p][i].att = a
                               /\ trace[p][i].txt[1].v \in SqlStages) =>
            /\ Count(p, "execute") = 0
            /\ Count(p, "answer_send") = 0
            /\ result[p].text[1] = Txt("Sorry, I encountered an error: ")

\* four attempts failed at the send, the extraction and the validation
C4_Witness ==
    /\ Returned("A")
    /\ Count("A", "raise") = 4
    /\ \A i \in 1..4 : Events("A", "raise")[i].txt[1].v \in SqlStages
    /\ {Description(Events("A", "raise")[i]) : i \in 1..4}
          = {"ServiceError", "JSONDecodeError", "ValidationError"}

\* an answer directive: an object whose message is a string
IsAnswerDirective(v) ==
    /\ v.type = "object"
    /\ "message" \in DOMAIN v.fields
    /\ v.fields["message"].k = "str"

\* an SQL directive: an object whose sqlQuery is a string
IsSqlDirective(v) ==
    /\ v.type = "object"
    /\ "sqlQuery" \in DOMAIN v.fields
    /\ v.fields["sqlQuery"].k = "str"

\* C5: a normal answer is the message of an answer directive received and
\* validated in the final attempt, and in that attempt exactly one SQL
\* directive was validated and its sqlQuery executed successfully exactly
\* once, before the send to the answer session.
C5_AnswerFromExecutedQuery ==
    \A p \in Procs :
        Answered(p) =>
            LET events == AttemptEvents(p, attempt[p])
                sql == extract_json_from_response(events[2].txt)
                answer == extract_json_from_response(events[6].txt)
            IN /\ Kinds(events) = <<"sql_send", "sql_reply", "execute", "fetch",
                                    "answer_send", "answer_reply">>
               /\ IsSqlDirective(sql)
               /\ events[3].n = 1
               /\ events[3].txt = <<sql.fields["sqlQuery"]>>
               /\ IsAnswerDirective(answer)
               /\ result[p].text = <<Txt(answer.fields["message"].v)>>

\* an answer returned in the second attempt, after a query failed in the first
C5_Witness ==
    /\ Answered("A")
    /\ attempt["A"] = 1
    /\ Events("A", "raise")[1].txt[1].v = "execute"
    /\ result["A"].text = <<Txt("See the list")>>

\* C6: a failure at any stage of an attempt that is not the 4th is followed
\* by a backoff sleep and the send of a new attempt, never by the failure
\* result; the failure result is returned only after the 4th attempt failed.
C6_FailuresAreRetried ==
    \A p \in Procs :
        LET t == trace[p]
            n == Len(t)
        IN /\ \A j \in 1..n :
                (t[j].ev = "raise" /\ t[j].att < 3) =>
                    IF j = n THEN pc[p] = "except"
                    ELSE /\ t[j + 1].ev = "sleep"
                         /\ t[j + 1].att = t[j].att
                         /\ IF j + 1 = n
                              THEN pc[p] = "gen_sql" /\ attempt[p] = t[j].att + 1
                              ELSE t[j + 2].ev = "sql_send" /\ t[j + 2].att = t[j].att + 1
           /\ (Returned(p) /\ ~Answered(p)) =>
                /\ Count(p, "raise") = 4
                /\ t[n].ev = "raise" /\ t[n].att = 3
                /\ result[p] = FailureResult(Description(t[n]))

\* failures of a send, of a query and of an answer, each retried
C6_Witness ==
    /\ Answered("A")
    /\ Count("A", "raise") = 3
    /\ [i \in 1..3 |-> Events("A", "raise")[i].txt[1].v]
          = <<"gen_sql", "execute", "parse_answer">>

\* C7: after a failure of the execution or of the answer stage the next call
\* of ask is a send of the same question to the SQL session, and the query
\* an attempt executes is the sqlQuery of the SQL reply of that attempt.
C7_RetryFromScratch ==
    \A p \in Procs :
        LET t == trace[p]
        IN \A j \in 1..Len(t) :
             /\ t[j].ev = "sql_send" => t[j].txt = SqlPrompt(question[p])
             /\ t[j].ev = "execute" =>
                  \E i \in 1..(j - 1) :
                      /\ t[i].ev = "sql_reply"
                      /\ t[i].att = t[j].att
                      /\ IsSqlDirective(extract_json_from_response(t[i].txt))
                      /\ t[j].txt = <<extract_json_from_response(t[i].txt).fields["sqlQuery"]>>
             /\ (/\ t[j].ev = "raise"
                 /\ t[j].txt[1].v \in {"execute", "gen_answer", "parse_answer"}
                 /\ j + 2 <= Len(t)) =>
                  /\ t[j + 1].ev = "sleep"
                  /\ t[j + 2].ev = "sql_send"

\* the answer stage failed after a query ran; the next attempt ran another
C7_Witness ==
    /\ Count("A", "execute") = 2
    /\ Events("A", "raise")[1].txt[1].v \in {"gen_answer", "parse_answer"}
    /\ Events("A", "execute")[1].n = 1
    /\ Events("A", "execute")[2].n = 1
    /\ Events("A", "execute")[1].txt # Events("A", "execute")[2].txt

\* the attempts of p that ended, and those that ended without a send raising
Ended(p) == Count(p, "raise") + (IF Answered(p) THEN 1 ELSE 0)
SendsRaised(p) ==
    Len(SelectSeq(trace[p], LAMBDA x : x.ev = "raise" /\ Description(x) = "ServiceError"))
BetweenAttempts(p) == pc[p] \in {"except", "gen_sql", "done"}

\* C8 as claimed: every attempt, at whatever stage it fails, appends one
\* request/response pair to the history of each of the two sessions (read
\* for the attempts in which no send raised, a send that raises having no
\* response to record).
C8_EveryAttemptAppendsToBoth ==
    \A p \in Procs :
        BetweenAttempts(p) =>
            /\ Len(sql_hist) >= Ended(p) - SendsRaised(p)
            /\ Len(resp_hist) >= Ended(p) - SendsRaised(p)

\* the request/response pairs of the sends of one session that returned
Turns(p, send, reply) ==
    LET sends == SelectSeq(trace[p], LAMBDA x : x.ev = send /\ x.n = 1)
        replies == Events(p, reply)
    IN [i \in 1..Len(sends) |-> [req |-> sends[i].txt, resp |-> replies[i].txt]]

\* C8 as amended: the history of a session holds, in order, one pair for
\* each send to it that returned, whether the attempt then fails or not, and
\* nothing else; an attempt sends to the answer session only after its
\* query executed, so a failure of the SQL stage or of the query leaves the
\* history of the answer session as it was.
C8_HistoriesFollowSends ==
    \A p \in Procs :
      pc[p] # "idle" =>
        /\ sql_hist = Turns(p, "sql_send", "sql_reply")
        /\ resp_hist = Turns(p, "answer_send", "answer_reply")
        /\ \A j \in 1..Len(trace[p]) :
              trace[p][j].ev = "answer_send" =>
                 \E i \in 1..(j - 1) :
                     /\ trace[p][i].ev = "execute"
                     /\ trace[p][i].n = 1
                     /\ trace[p][i].att = trace[p][j].att

\* three attempts reached the SQL session and one of them the answer session
C8_Witness ==
    /\ Ended("A") = 3
    /\ Len(sql_hist) = 3
    /\ Len(resp_hist) = 1
    /\ Events("A", "raise")[1].txt[1].v = "parse_sql"
    /\ Events("A", "raise")[2].txt[1].v = "execute"
    /\ Events("A", "raise")[3].txt[1].v = "parse_answer"

\* json.dumps of the rows of each statement, written out
SerializedRows(stmt) ==
    IF stmt = "SELECT_COUNT"
      THEN <<P("["), P("["), Num("5"), P("]"), P("]")>>
      ELSE <<P("["), P("["), Num("1"), P(","), WS, Num("2"), P("]"), P(","), WS,
                     P("["), Num("3"), P(","), WS, Num("4"), P("]"), P("]")>>
\* what a message holds besides its literal text
DataPart(msg) == SelectSeq(msg, LAMBDA x : x.k # "text")
TextPart(msg) == SelectSeq(msg, LAMBDA x : x.k = "text")

\* C9: the message an attempt sends to the answer session holds the question
\* passed to ask and the serialization of exactly the rows of the query that
\* attempt executed.
C9_AnswerPromptCarriesRows ==
    \A p \in Procs :
        LET t == trace[p]
        IN \A j \in 1..Len(t) :
             t[j].ev = "answer_send" =>
                \E i \in 1..(j - 1) :
                    /\ t[i].ev = "execute" /\ t[i].n = 1 /\ t[i].att = t[j].att
                    /\ DataPart(t[j].txt) = SerializedRows(t[i].txt[1].v)
                    /\ TextPart(t[j].txt)[2] = Txt(question[p])

\* the second attempt sends the two rows of its query, the first attempt
\* having run the query of one row
C9_Witness ==
    /\ Count("A", "answer_send") = 2
    /\ Events("A", "execute")[1].txt = <<Str("SELECT_COUNT")>>
    /\ Events("A", "execute")[2].txt = <<Str("SELECT_NAMES")>>
    /\ DataPart(Events("A", "answer_send")[2].txt) = SerializedRows("SELECT_NAMES")

\* C10: concurrent invocations are not kept apart: a fetch returns the rows
\* left by the most recent execute of the whole process, of whichever
\* invocation, or none when they were fetched already, and the message sent
\* to the answer session carries them.
C10_FetchReturnsLastExecute ==
    \A p \in Procs :
        LET t == trace[p]
        IN \A j \in 1..Len(t) :
             t[j].ev = "answer_send" =>
                /\ t[j - 1].ev = "fetch"
                /\ DataPart(t[j].txt) =
                      IF t[j - 1].n = 0 THEN <<P("["), P("]")>>
                      ELSE SerializedRows(t[j - 1].txt[1].v)

\* A and B both executed, A fetched the rows of B's query and sent them to
\* the answer session; B's turn lies between two turns of A in the history
\* of the SQL session
C10_Witness ==
    /\ Count("A", "answer_send") = 1
    /\ Count("B", "execute") = 1
    /\ LET mine == Events("A", "execute")[Count("A", "execute")].txt[1].v
           theirs == Events("B", "execute")[1].txt[1].v
       IN /\ mine # theirs
          /\ DataPart(Events("A", "answer_send")[1].txt) = SerializedRows(theirs)
    /\ Len(sql_hist) >= 3
    /\ sql_hist[1].req = SqlPrompt(question["A"])
    /\ sql_hist[2].req = SqlPrompt(question["B"])
    /\ sql_hist[3].req = SqlPrompt(question["A"])

\* the object a reply text was parsed to has the field as a string
HasString(field) ==
    /\ field \in DOMAIN parsed.fields
    /\ parsed.fields[field].k = "str"
Judged == parsed.type = "object" /\ accepted # "unknown"

\* C11: the validator rejects an object of the SQL stage whose sqlQuery is
\* missing or not a string and accepts one whose sqlQuery is a string and
\* which has no description; it rejects an object of the answer stage whose
\* message is missing or not a string; and the field of a stage is read
\* only from an object that passed the validation of that stage.
C11_ValidatedBeforeRead ==
    /\ (Judged /\ for_stage = "sql") =>
          /\ ~HasString("sqlQuery") => accepted = "no"
          /\ (HasString("sqlQuery") /\ "description" \notin DOMAIN parsed.fields)
                => accepted = "yes"
    /\ (Judged /\ for_stage = "answer") =>
          (~HasString("message") => accepted = "no")
    /\ accepted = "no" => at = "raised" /\ read = Unbound
    /\ read # Unbound =>
          /\ accepted = "yes"
          /\ HasString(FieldOf(for_stage))
          /\ read = parsed.fields[FieldOf(for_stage)]

\* a fenced object of the SQL stage whose sqlQuery is a number was rejected
C11_Witness ==
    /\ for_stage = "sql"
    /\ raw_text = Render(Reply(Prose, <<Block(TRUE, ObjText(<<Member("sqlQuery", NumberOf("5"))>>))>>))
    /\ parsed.fields = ObjValue(<<Member("sqlQuery", NumberOf("5"))>>)
    /\ accepted = "no"
    /\ at = "raised"

\* the three texts that carry the object o: its JSON text, and text that is
\* not JSON with o in a JSON-tagged fence and in an untagged fence
Direct(o) == Render(Reply(ObjText(o), <<>>))
InTaggedFence(o) == Render(Reply(Prose, <<Block(TRUE, ObjText(o))>>))
InUntaggedFence(o) == Render(Reply(Prose, <<Block(FALSE, ObjText(o))>>))
Extracted == at # "extract"

\* C12: for every JSON object o, extract_json_from_response returns an
\* object equal to o for the JSON text of o, for text that is not JSON with
\* o inside a JSON-tagged fence and for text that is not JSON with o inside
\* an untagged fence.
C12_ExtractReturnsObject ==
    \A o \in JsonObjects :
        (Extracted /\ raw_text \in {Direct(o), InTaggedFence(o), InUntaggedFence(o)}) =>
            /\ parsed.type = "object"
            /\ parsed.fields = ObjValue(o)

\* the replies of several fenced blocks, and those among them whose blocks
\* hold no fence marker of their own
Several == {r \in Replies : Len(r.blocks) >= 2}
Plain(r) == \A i \in 1..Len(r.blocks) : ~Contains(r.blocks[i].content, <<FENCE>>)
\* what json.loads makes of the content of a block, trimmed
ParseOf(content) == Loads(Strip(content))

\* C13 as claimed: when the text is not JSON itself and holds several
\* fenced blocks, the result is the parse of the content of the first
\* block, or a parse failure when that is not JSON, whatever the later
\* blocks hold and whether they are JSON-tagged or not.
C13_OnlyFirstBlock ==
    \A r \in Several :
        (Extracted /\ raw_text = Render(r) /\ Plain(r)) =>
            parsed = ParseOf(r.blocks[1].content)

\* the block the extractor cuts out: the first JSON-tagged one when there
\* is one, the first one otherwise
Chosen(r) ==
    LET tagged == {i \in 1..Len(r.blocks) : r.blocks[i].tagged}
    IN IF tagged = {} THEN 1 ELSE CHOOSE i \in tagged : \A j \in tagged : i <= j
\* the content of a block as far as the next fence marker
UpToMarker(content) ==
    IF Contains(content, <<FENCE>>)
      THEN SubSeq(content, 1, Find(content, <<FENCE>>) - 1)
      ELSE content

\* C13 as amended: when the text is not JSON itself and holds several
\* fenced blocks, one block alone is considered, the first JSON-tagged
\* block when a block is JSON-tagged and the first block otherwise: the
\* result is the parse of its content as far as the next fence marker, or a
\* parse failure, whatever the other blocks hold.
C13_FirstTaggedElseFirst ==
    \A r \in Several :
        (Extracted /\ raw_text = Render(r)) =>
            parsed = ParseOf(UpToMarker(r.blocks[Chosen(r)].content))

\* an untagged block with one object, then a JSON-tagged block with
\* another: the object of the second block was returned
C13_Witness ==
    /\ at = "done"
    /\ for_stage = "sql"
    /\ raw_text = Render(Reply(Prose,
          <<Block(FALSE, ObjText(<<Member("message", StringOf(<<Txt("hi")>>))>>)),
            Block(TRUE, ObjText(<<Member("sqlQuery", StringOf(<<Txt("SELECT 1")>>))>>))>>))
    /\ read = Str("SELECT 1")

\* C14: for every text, extract_json_from_response returns a mapping (a
\* JSON object) or raises a parse failure; it returns no array, number or
\* string.
C14_MappingOrFailure ==
    Extracted => parsed.type \in {"object", "error"}

Running(p) == ~Inactive(p)
\* the two final states of an invocation
DONE(p) == Returned(p) /\ result[p].kind = "str"
FAILED(p) ==
    /\ Returned(p)
    /\ result[p].kind = "tuple"
    /\ result[p].text[1] = Txt("Sorry, I encountered an error: ")

\* C15: when every send and every query returns or raises, an invocation
\* of ask terminates; it ends in exactly one of DONE (a message returned)
\* and FAILED (the failure result returned), and in FAILED only after
\* exactly 4 attempts failed, one failure in each of the attempts.
C15_Terminates ==
    \A p \in Procs :
        /\ Running(p) ~> Returned(p)
        /\ [](Returned(p) => (DONE(p) /\ ~FAILED(p)) \/ (FAILED(p) /\ ~DONE(p)))
        /\ [](FAILED(p) =>
                /\ Count(p, "raise") = 4
                /\ \A i \in 1..4 : Events(p, "raise")[i].att = i - 1)

\* an invocation that ended in FAILED after a send, a reply, a query and an
\* answer failed in turn
C15_Witness ==
    /\ FAILED("A")
    /\ [i \in 1..4 |-> Events("A", "raise")[i].txt[1].v]
          = <<"gen_sql", "parse_sql", "execute", "parse_answer">>

IsPrefix(a, b) == Len(a) <= Len(b) /\ SubSeq(b, 1, Len(a)) = a
\* the turns of a history are all requests of one session
TurnsOf(history, opening) ==
    \A i \in 1..Len(history) : history[i].req[1] = Txt(opening)

\* C16: over a sequence of invocations the history of each session is
\* append-only: no step shortens it or changes a turn it holds, so the
\* turns of earlier questions and of earlier failed attempts stay when a
\* later question or attempt is sent; a step that adds to the history of
\* one session leaves the history of the other as it was, and neither
\* history holds a turn of the other session.
C16_HistoriesAppendOnly ==
    [][/\ IsPrefix(sql_hist, sql_hist')
       /\ IsPrefix(resp_hist, resp_hist')
       /\ sql_hist' # sql_hist => resp_hist' = resp_hist
       /\ resp_hist' # resp_hist => sql_hist' = sql_hist
       /\ TurnsOf(sql_hist', "Generate a SQL query for this question: ")
       /\ TurnsOf(resp_hist', "The question of the user was: ")]_vars

\* the second invocation sent its question; the turns of the first
\* question, that of its failed first attempt among them, are still there
C16_Witness ==
    /\ calls_left["A"] = 0
    /\ Len(sql_hist) = 3
    /\ sql_hist[1].req = SqlPrompt("how many employees")
    /\ sql_hist[1].resp = <<Txt("I cannot answer that")>>
    /\ sql_hist[2].req = SqlPrompt("how many employees")
    /\ sql_hist[3].req = SqlPrompt("who is the oldest")
    /\ Len(resp_hist) = 1

\* the calls of an attempt in the order of the try body
StageOrder == <<"sql_send", "sql_reply", "execute", "fetch", "answer_send", "answer_reply">>
\* the calls of attempt a of p, its raise and its sleep left out
CallsOf(p, a) ==
    Kinds(SelectSeq(trace[p], LAMBDA x : x.att = a /\ x.ev \notin {"raise", "sleep"}))
\* the calls of the whole process so far, by kind
Total(kind) == totals[kind] + Made(trace["A"])[kind] + Made(trace["B"])[kind]

\* C17: the stages of every attempt run in the order SQL-session send,
\* extraction and validation, query, answer-session send: a query is
\* executed only after the SQL reply of its attempt was parsed and
\* validated, the answer session is contacted only after the query of its
\* attempt ran; hence over a sequence of invocations the sends to the
\* answer session are never more than the queries that ran, and these never
\* more than the sends to the SQL session.
C17_StagesInOrder ==
    /\ \A p \in Procs :
         LET t == trace[p]
         IN /\ \A a \in 0..3 : IsPrefix(CallsOf(p, a), StageOrder)
            /\ \A j \in 1..Len(t) :
                 /\ t[j].ev = "execute" =>
                      /\ t[j - 1].ev = "sql_reply"
                      /\ t[j - 1].att = t[j].att
                      /\ IsSqlDirective(extract_json_from_response(t[j - 1].txt))
                 /\ t[j].ev = "answer_send" =>
                      \E i \in 1..(j - 1) :
                          t[i].ev = "execute" /\ t[i].n = 1 /\ t[i].att = t[j].att
    /\ Total("answer_send") <= Total("execute")
    /\ Total("execute") <= Total("sql_send")

\* the first invocation sent twice to the SQL session and ran one query;
\* the second has run its query and sent to the answer session
C17_Witness ==
    /\ totals = [sql_send |-> 2, execute |-> 1, answer_send |-> 1]
    /\ Total("sql_send") = 3
    /\ Total("execute") = 2
    /\ Total("answer_send") = 2

RECURSIVE Sum(_)
Sum(numbers) == IF numbers = <<>> THEN 0 ELSE Head(numbers) + Sum(Tail(numbers))
Exhausted(p) == Returned(p) /\ ~Answered(p)

\* C18: ask sleeps between attempts alone: every sleep follows the failure
\* of an attempt that is not the 4th and is followed by the send of the next
\* attempt, so there is no sleep before the first attempt, after an attempt
\* that succeeded or after the 4th failure; an exhausted invocation has
\* slept exactly 3 times, for 2, 4 and 6 seconds, 12 seconds in all, and
\* returns the failure result with no call after the 4th failure.
C18_SleepsBetweenAttempts ==
    \A p \in Procs :
        LET t == trace[p]
            n == Len(t)
        IN /\ \A j \in 1..n :
                t[j].ev = "sleep" =>
                    /\ j > 1
                    /\ t[j - 1].ev = "raise"
                    /\ t[j - 1].att = t[j].att
                    /\ t[j].att < 3
                    /\ IF j = n THEN pc[p] = "gen_sql"
                       ELSE t[j + 1].ev = "sql_send" /\ t[j + 1].att = t[j].att + 1
           /\ Answered(p) => t[n].ev = "answer_reply"
           /\ Exhausted(p) =>
                /\ Sleeps(p) = <<2, 4, 6>>
                /\ Sum(Sleeps(p)) = 12
                /\ t[n].ev = "raise" /\ t[n].att = 3
                /\ result[p] = FailureResult(exc[p])

\* four queries failed: three sleeps, none after the last failure
C18_Witness ==
    /\ Exhausted("A")
    /\ Count("A", "sleep") = 3
    /\ \A i \in 1..4 : Events("A", "raise")[i].txt[1].v = "execute"
    /\ trace["A"][Len(trace["A"])].ev = "raise"

====
